---- MODULE Spec2Model ----
(***************************************************************************)
(* The manifest endpoint of the update server: GET and the three response  *)
(* builders putUpdateInResponseAsync, putRollBackInResponseAsync and       *)
(* putNoUpdateAvailableInResponseAsync.  One action is one run of the      *)
(* handler between two await points; the value an awaited collaborator     *)
(* settles with (a result or a raised error) is the action's input.        *)
(***************************************************************************)
EXTENDS Integers, Sequences, FiniteSets, TLC

(***************************************************************************)
(* JavaScript values.  A string is a sequence of one-character strings; a  *)
(* value that may be null (Headers.get, URLSearchParams.get) is a record   *)
(* with a presence flag; a number is a record with a NaN flag.             *)
(***************************************************************************)
Null == [some |-> FALSE, s |-> <<>>]

Str(s) == [some |-> TRUE, s |-> s]

\* JavaScript truthiness of a string-or-null: null and "" are falsy.
Truthy(v) == v.some /\ v.s # <<>>

\* a ?? b
Coalesce(a, b) == IF a.some THEN a ELSE b

NaN == [nan |-> TRUE, n |-> 0]

Num(k) == [nan |-> FALSE, n |-> k]

\* a === b on numbers: NaN equals nothing, itself included.
NumStrictEq(a, b) == ~a.nan /\ ~b.nan /\ a.n = b.n

DigitVal == ("0" :> 0) @@ ("1" :> 1) @@ ("2" :> 2) @@ ("3" :> 3) @@ ("4" :> 4) @@
            ("5" :> 5) @@ ("6" :> 6) @@ ("7" :> 7) @@ ("8" :> 8) @@ ("9" :> 9)

DigitChar == <<"0", "1", "2", "3", "4", "5", "6", "7", "8", "9">>

IsDigit(c) == c \in DOMAIN DigitVal

RECURSIVE SkipWhiteSpace(_)
SkipWhiteSpace(s) ==
    IF s # <<>> /\ Head(s) = " " THEN SkipWhiteSpace(Tail(s)) ELSE s

RECURSIVE DigitPrefix(_)
DigitPrefix(s) ==
    IF s # <<>> /\ IsDigit(Head(s)) THEN <<Head(s)>> \o DigitPrefix(Tail(s)) ELSE <<>>

RECURSIVE DigitsValue(_, _)
DigitsValue(d, acc) ==
    IF d = <<>> THEN acc ELSE DigitsValue(Tail(d), 10 * acc + DigitVal[Head(d)])

\* parseInt(s, 10): leading white space is skipped, one sign is read, then the
\* longest run of decimal digits; no digit at all gives NaN.
parseInt(s) ==
    LET t == SkipWhiteSpace(s)
        signed == t # <<>> /\ Head(t) \in {"-", "+"}
        sign == IF t # <<>> /\ Head(t) = "-" THEN -1 ELSE 1
        d == DigitPrefix(IF signed THEN Tail(t) ELSE t)
    IN  IF d = <<>> THEN NaN ELSE Num(sign * DigitsValue(d, 0))

RECURSIVE NatToString(_)
NatToString(k) ==
    IF k < 10 THEN <<DigitChar[k + 1]>>
    ELSE NatToString(k \div 10) \o <<DigitChar[(k % 10) + 1]>>

\* Number.prototype.toString()
toString(v) ==
    IF v.nan THEN <<"N", "a", "N">>
    ELSE IF v.n < 0 THEN <<"-">> \o NatToString(-v.n)
    ELSE NatToString(v.n)

(***************************************************************************)
(* Values the requests and the collaborators are drawn from.               *)
(***************************************************************************)
MaxAssets == 2

Methods == {"GET", "HEAD"}

IOS == <<"i", "o", "s">>

ANDROID == <<"a", "n", "d", "r", "o", "i", "d">>

ProtocolVersionHeaders ==
    {Null, Str(<<"0">>), Str(<<"1">>), Str(<<"2">>), Str(<<"-", "1">>), Str(<<"a">>)}

PlatformHeaders == {Null, Str(IOS), Str(<<"w", "e", "b">>)}

PlatformParams == {Null, Str(ANDROID)}

RuntimeVersionHeaders == {Null, Str(<<"1">>)}

RuntimeVersionParams == {Null, Str(<<"2">>)}

\* the content hash getMetadataAsync reports for the resolved bundle
ContentHashes == {<<"a">>}

\* The metadata's content hash as a UUID-shaped string: one string per hash,
\* different hashes giving different strings.
convertSHA256HashToUUID(id) == <<"u", "-">> \o id

\* the client runs nothing it names, the resolved bundle, or another update
CurrentUpdateIds ==
    {Null, Str(<<>>), Str(convertSHA256HashToUUID(<<"a">>)),
     Str(convertSHA256HashToUUID(<<"b">>))}

EmbeddedUpdateIds == {Null, Str(<<>>), Str(convertSHA256HashToUUID(<<"a">>))}

ExpectSignatureHeaders == {Null, Str(<<>>), Str(<<"s", "i", "g">>)}

Headers(pv, pl, rv, cur, emb, sig) ==
    ("expo-protocol-version" :> pv) @@ ("expo-platform" :> pl) @@
    ("expo-runtime-version" :> rv) @@ ("expo-current-update-id" :> cur) @@
    ("expo-embedded-update-id" :> emb) @@ ("expo-expect-signature" :> sig)

SearchParams(pl, rv) == ("platform" :> pl) @@ ("runtime-version" :> rv)

Requests ==
    { [method |-> m, headers |-> Headers(pv, pl, rv, cur, emb, sig),
       searchParams |-> SearchParams(qpl, qrv)] :
        m \in Methods, pv \in ProtocolVersionHeaders, pl \in PlatformHeaders,
        rv \in RuntimeVersionHeaders, cur \in CurrentUpdateIds,
        emb \in EmbeddedUpdateIds, sig \in ExpectSignatureHeaders,
        qpl \in PlatformParams, qrv \in RuntimeVersionParams }

AssetPaths == {"a.png", "b.png"}

\* the keys getAssetMetadataAsync gives the assets, and those it gives the launch asset:
\* two assets may share a key, and the launch asset may share one with an asset
AssetKeys == {"k1", "k2"}

LaunchAssetKeys == {"k1", "k3"}

AssetLists == UNION {[1..n -> AssetPaths] : n \in 0..MaxAssets}

(***************************************************************************)
(* Errors, payloads and responses.                                         *)
(***************************************************************************)
Error(message) == [isError |-> TRUE, name |-> "Error", message |-> message]

NoUpdateAvailableError == [isError |-> TRUE, name |-> "NoUpdateAvailableError", message |-> ""]

TypeError(message) == [isError |-> TRUE, name |-> "TypeError", message |-> message]

\* What a failing collaborator raises: an Error, or a value that is no Error.
Throwables(collaborator) ==
    {Error(collaborator), [isError |-> FALSE, name |-> "", message |-> collaborator]}

NoError == [isError |-> FALSE, name |-> "none", message |-> ""]

\* JSON.stringify: the text of a value, kept apart from the value itself.
JSONstringify(value) == [json |-> value]

NoSignature == [some |-> FALSE, sig |-> [message |-> [json |-> [none |-> TRUE]], key |-> ""], keyid |-> ""]

signRSASHA256(message, key) == [message |-> message, key |-> key]

\* serializeDictionary(convertToDictionaryItemsRepresentation({sig, keyid: 'main'}))
SerializedSignature(hashSignature) == [some |-> TRUE, sig |-> hashSignature, keyid |-> "main"]

Part(name, body, contentType, signature) ==
    [name |-> name, body |-> body, contentType |-> contentType, signature |-> signature]

NoHeaders ==
    [protocolVersion |-> Null, sfvVersion |-> Null, cacheControl |-> "",
     contentType |-> "", signature |-> NoSignature]

NoResponse == [status |-> 0, kind |-> "none", message |-> "", headers |-> NoHeaders, parts |-> <<>>]

\* new Response(JSON.stringify({ error }), { status }): a string body gets the
\* default content type unless the init names one.
ErrorResponse(status, message, contentType) ==
    [status |-> status, kind |-> "error", message |-> message,
     headers |-> [NoHeaders EXCEPT !.contentType = contentType], parts |-> <<>>]

MessageResponse(status, message) ==
    [status |-> status, kind |-> "message", message |-> message,
     headers |-> [NoHeaders EXCEPT !.contentType = "text/plain;charset=UTF-8"], parts |-> <<>>]

MultipartResponse(protocolVersionHeader, parts) ==
    [status |-> 200, kind |-> "multipart", message |-> "",
     headers |-> [protocolVersion |-> Str(protocolVersionHeader), sfvVersion |-> Str(<<"0">>),
                  cacheControl |-> "private, max-age=0", contentType |-> "multipart/mixed",
                  signature |-> NoSignature],
     parts |-> parts]

NORMAL_UPDATE == "NORMAL_UPDATE"

ROLLBACK == "ROLLBACK"

(***************************************************************************)
(* State: one entry per request in flight.                                 *)
(***************************************************************************)
VARIABLES
    req,              \* the request: method, headers, query parameters
    pc,               \* the await the request is suspended at
    builder,          \* which response builder is running: none, manifest, rollback, noUpdate
    protocolVersion,  \* GET's parsed protocol version
    platform,         \* GET's resolved platform
    runtimeVersion,   \* GET's resolved runtime version
    updateType,       \* what getTypeOfUpdateAsync returned
    metadata,         \* what getMetadataAsync returned
    assets,           \* the settled getAssetMetadataAsync results, by position
    payload,          \* the manifest or directive built
    privateKey,       \* what getPrivateKeyAsync returned
    signedString,     \* the strings handed to signRSASHA256
    response,         \* the Response GET returned
    escaped,          \* the condition GET's promise rejected with
    calls,            \* the collaborators called
    raised            \* the condition a collaborator raised in the request

vars == <<req, pc, builder, protocolVersion, platform, runtimeVersion, updateType,
          metadata, assets, payload, privateKey, signedString, response, escaped, calls,
          raised>>

RequestIds == DOMAIN pc

NoMetadata == [id |-> <<>>, createdAt |-> "", platforms |-> {}, assets |-> <<>>, bundle |-> ""]

NoPayload == [none |-> TRUE]

NotLoaded == [loaded |-> FALSE, key |-> Null]

Loaded(key) == [loaded |-> TRUE, key |-> key]

InitFor(ids, requests) ==
    /\ req \in [ids -> requests]
    /\ pc = [r \in ids |-> "start"]
    /\ builder = [r \in ids |-> "none"]
    /\ protocolVersion = [r \in ids |-> NaN]
    /\ platform = [r \in ids |-> Null]
    /\ runtimeVersion = [r \in ids |-> Null]
    /\ updateType = [r \in ids |-> "unknown"]
    /\ metadata = [r \in ids |-> NoMetadata]
    /\ assets = [r \in ids |-> <<>>]
    /\ payload = [r \in ids |-> NoPayload]
    /\ privateKey = [r \in ids |-> NotLoaded]
    /\ signedString = [r \in ids |-> {}]
    /\ response = [r \in ids |-> NoResponse]
    /\ escaped = [r \in ids |-> NoError]
    /\ calls = [r \in ids |-> {}]
    /\ raised = [r \in ids |-> NoError]

Init == InitFor({1}, Requests)

\* return new Response(...) from GET
Return(r, resp) ==
    /\ response' = [response EXCEPT ![r] = resp]
    /\ pc' = [pc EXCEPT ![r] = "done"]
    /\ UNCHANGED <<escaped, builder, calls>>

\* a condition GET neither catches nor converts: the handler's promise rejects
Escape(r, error) ==
    /\ escaped' = [escaped EXCEPT ![r] = error]
    /\ pc' = [pc EXCEPT ![r] = "done"]
    /\ UNCHANGED <<response, builder, calls>>

\* call collaborators and suspend at the await of their promise, inside builder b
Await(r, b, collaborators, label) ==
    /\ calls' = [calls EXCEPT ![r] = @ \cup collaborators]
    /\ builder' = [builder EXCEPT ![r] = b]
    /\ pc' = [pc EXCEPT ![r] = label]
    /\ UNCHANGED <<response, escaped>>

(***************************************************************************)
(* GET: validation, bundle resolution, classification, dispatch.           *)
(***************************************************************************)
\* Array.isArray of what Headers.get returns, a string or null
ArrayIsArray(v) == FALSE

\* the guard of the protocol version's 400
ProtocolVersionRejected(protocolVersionMaybeArray) ==
    Truthy(protocolVersionMaybeArray) /\ ArrayIsArray(protocolVersionMaybeArray)

ParseProtocolVersion(protocolVersionMaybeArray) ==
    parseInt(Coalesce(protocolVersionMaybeArray, Str(<<"0">>)).s)

\* the platform resolved with the query parameter first
ResolvePlatformQueryFirst(request) ==
    Coalesce(request.searchParams["platform"], request.headers["expo-platform"])

ResolvePlatform(request) ==
    Coalesce(request.headers["expo-platform"], request.searchParams["platform"])

\* a platform check that rejects only a missing platform
PlatformRejectedOnlyMissing(p) == ~Truthy(p)

PlatformRejected(p) == ~Truthy(p) \/ (p.s # IOS /\ p.s # ANDROID)

ResolveRuntimeVersion(request) ==
    Coalesce(request.headers["expo-runtime-version"], request.searchParams["runtime-version"])

DefaultContentType == "text/plain;charset=UTF-8"

\* GET up to its first await: every check on the request, then the bundle resolver's call.
GETStart(r) ==
    /\ pc[r] = "start"
    /\ LET protocolVersionMaybeArray == req[r].headers["expo-protocol-version"]
           pv == ParseProtocolVersion(protocolVersionMaybeArray)
           pl == ResolvePlatform(req[r])
           rv == ResolveRuntimeVersion(req[r])
       IN  IF req[r].method # "GET"
           THEN /\ Return(r, ErrorResponse(405, "Expected GET.", DefaultContentType))
                /\ UNCHANGED <<protocolVersion, platform, runtimeVersion>>
           ELSE IF ProtocolVersionRejected(protocolVersionMaybeArray)
           THEN /\ Return(r, ErrorResponse(400,
                        "Unsupported protocol version. Expected either 0 or 1.",
                        DefaultContentType))
                /\ UNCHANGED <<protocolVersion, platform, runtimeVersion>>
           ELSE IF PlatformRejected(pl)
           THEN /\ Return(r, ErrorResponse(400,
                        "Unsupported platform. Expected either ios or android.",
                        DefaultContentType))
                /\ protocolVersion' = [protocolVersion EXCEPT ![r] = pv]
                /\ platform' = [platform EXCEPT ![r] = pl]
                /\ UNCHANGED runtimeVersion
           ELSE IF ~Truthy(rv)
           THEN /\ Return(r, ErrorResponse(400, "No runtimeVersion provided.",
                        DefaultContentType))
                /\ protocolVersion' = [protocolVersion EXCEPT ![r] = pv]
                /\ platform' = [platform EXCEPT ![r] = pl]
                /\ runtimeVersion' = [runtimeVersion EXCEPT ![r] = rv]
           ELSE /\ protocolVersion' = [protocolVersion EXCEPT ![r] = pv]
                /\ platform' = [platform EXCEPT ![r] = pl]
                /\ runtimeVersion' = [runtimeVersion EXCEPT ![r] = rv]
                /\ Await(r, "none", {"getLatestUpdateBundlePathForRuntimeVersionAsync"},
                         "awaitBundlePath")
    /\ UNCHANGED <<req, privateKey, updateType, metadata, assets, payload, signedString,
                   raised>>

\* the promise of a collaborator of request r is rejected with error
Rejected(r, error) == raised' = [raised EXCEPT ![r] = error]

\* The bundle resolver settles: a path, and the classifier is called outside any
\* try block; or an error, which GET answers with a 404.
BundlePathResolved(r) ==
    /\ pc[r] = "awaitBundlePath"
    /\ \/ /\ Await(r, "none", {"getTypeOfUpdateAsync"}, "awaitUpdateType")
          /\ UNCHANGED raised
       \/ /\ Return(r, ErrorResponse(404, "getLatestUpdateBundlePathForRuntimeVersionAsync",
                     DefaultContentType))
          /\ Rejected(r, Error("getLatestUpdateBundlePathForRuntimeVersionAsync"))
    /\ UNCHANGED <<req, privateKey, protocolVersion, platform, runtimeVersion, updateType,
                   metadata, assets, payload, signedString>>

\* putNoUpdateAvailableInResponseAsync up to its first await.  GET calls it from its
\* catch block, so what it raises is caught by nothing.
NoUpdateStart(r) ==
    IF NumStrictEq(protocolVersion[r], Num(0))
    THEN Escape(r, Error("NoUpdateAvailable directive not available in protocol version 0"))
    ELSE Await(r, "noUpdate", {"createNoUpdateAvailableDirectiveAsync"},
               "awaitNoUpdateDirective")

\* GET's catch block
Catch(r, error) ==
    IF error.name = "NoUpdateAvailableError"
    THEN NoUpdateStart(r)
    ELSE Return(r, ErrorResponse(404,
                IF error.isError THEN error.message ELSE "An unknown error occurred",
                DefaultContentType))

\* A condition raised while builder[r] runs: GET's try block covers the manifest and
\* the rollback builders only.
Raise(r, error) ==
    IF builder[r] \in {"manifest", "rollback"} THEN Catch(r, error) ELSE Escape(r, error)

\* an awaited collaborator rejects with error while builder[r] runs
Fail(r, error) == Raise(r, error) /\ Rejected(r, error)

(***************************************************************************)
(* putRollBackInResponseAsync and putUpdateInResponseAsync, entered from   *)
(* GET's try block once the bundle is classified.                          *)
(***************************************************************************)
\* the gate testing for protocol version 1 instead of 0
RollbackUnsupportedOnVersion1(pv) == NumStrictEq(pv, Num(1))

\* the rollback builder without its protocol version gate
RollbackUnsupportedNever(pv) == FALSE

\* the gate letting protocol version 1 through and nothing else
RollbackUnsupportedUnlessVersion1(pv) == ~NumStrictEq(pv, Num(1))

\* the rollback builder's protocol version gate
RollbackUnsupported(pv) == NumStrictEq(pv, Num(0))

\* the test never finding the embedded update current
RollbackNeverCurrent(currentUpdateId, embeddedUpdateId) == FALSE

\* the rollback builder's test for "the client already runs the embedded update"
RollbackNoUpdate(currentUpdateId, embeddedUpdateId) == currentUpdateId = embeddedUpdateId

\* putRollBackInResponseAsync up to its first await; what it raises GET catches
RollBackStart(r) ==
    LET embeddedUpdateId == req[r].headers["expo-embedded-update-id"]
        currentUpdateId == req[r].headers["expo-current-update-id"]
    IN  IF RollbackUnsupported(protocolVersion[r])
        THEN Catch(r, Error("Rollbacks not supported on protocol version 0"))
        ELSE IF ~Truthy(embeddedUpdateId)
        THEN Catch(r, Error("Invalid Expo-Embedded-Update-ID request header specified."))
        ELSE IF RollbackNoUpdate(currentUpdateId, embeddedUpdateId)
        THEN Catch(r, NoUpdateAvailableError)
        ELSE Await(r, "rollback", {"createRollBackDirectiveAsync"}, "awaitRollBackDirective")

\* GET's dispatch sending a NORMAL bundle to the rollback builder
UpdateStartInRollBackBuilder(r) == RollBackStart(r)

\* putUpdateInResponseAsync up to its first await
UpdateStart(r) == Await(r, "manifest", {"getMetadataAsync"}, "awaitMetadata")

\* getTypeOfUpdateAsync settles: the directory listing decides the builder; a failed
\* listing is raised outside GET's try block.
UpdateTypeResolved(r) ==
    /\ pc[r] = "awaitUpdateType"
    /\ \/ \E error \in Throwables("getTypeOfUpdateAsync") :
             /\ Escape(r, error)
             /\ Rejected(r, error)
             /\ UNCHANGED updateType
       \/ \E hasRollbackMarker \in BOOLEAN :
             LET type == IF hasRollbackMarker THEN ROLLBACK ELSE NORMAL_UPDATE
             IN  /\ updateType' = [updateType EXCEPT ![r] = type]
                 /\ IF type = NORMAL_UPDATE THEN UpdateStart(r) ELSE RollBackStart(r)
                 /\ UNCHANGED raised
    /\ UNCHANGED <<req, privateKey, protocolVersion, platform, runtimeVersion, metadata, assets,
                   payload, signedString>>

\* the shortcut comparing the raw content hash instead of the derived identifier
NoUpdateShortcutRawHash(currentUpdateId, id, pv) ==
    currentUpdateId = Str(id) /\ NumStrictEq(pv, Num(1))

\* the shortcut without its protocol version test
NoUpdateShortcutAnyVersion(currentUpdateId, id, pv) ==
    currentUpdateId = Str(convertSHA256HashToUUID(id))

\* the manifest builder's shortcut test
NoUpdateShortcut(currentUpdateId, id, pv) ==
    currentUpdateId = Str(convertSHA256HashToUUID(id)) /\ NumStrictEq(pv, Num(1))

PlatformSets == {{IOS, ANDROID}, {ANDROID}}

\* getMetadataAsync settles: the shortcut, or on to the app config
MetadataRead(r) ==
    /\ pc[r] = "awaitMetadata"
    /\ \/ \E error \in Throwables("getMetadataAsync") :
             /\ Fail(r, error)
             /\ UNCHANGED metadata
       \/ \E id \in ContentHashes, list \in AssetLists, platforms \in PlatformSets :
             /\ metadata' = [metadata EXCEPT ![r] =
                    [id |-> id, createdAt |-> "createdAt", platforms |-> platforms,
                     assets |-> list, bundle |-> "bundle.js"]]
             /\ IF NoUpdateShortcut(req[r].headers["expo-current-update-id"], id,
                                    protocolVersion[r])
                THEN Return(r, MessageResponse(200, "No update available"))
                ELSE Await(r, "manifest", {"getExpoConfigAsync"}, "awaitExpoConfig")
             /\ UNCHANGED raised
    /\ UNCHANGED <<req, privateKey, protocolVersion, platform, runtimeVersion, updateType, assets,
                   payload, signedString>>

\* getExpoConfigAsync settles: the platform's asset list is read and one lookup per
\* asset is started; Promise.all of no lookup is fulfilled at once.
ExpoConfigRead(r) ==
    /\ pc[r] = "awaitExpoConfig"
    /\ \/ \E error \in Throwables("getExpoConfigAsync") : Fail(r, error)
       \/ /\ IF platform[r].s \notin metadata[r].platforms
             THEN Raise(r, TypeError("Cannot read properties of undefined (reading 'assets')"))
             ELSE IF Len(metadata[r].assets) = 0
             THEN Await(r, "manifest", {"getAssetMetadataAsync"}, "awaitLaunchAsset")
             ELSE Await(r, "manifest", {"getAssetMetadataAsync"}, "awaitAssets")
          /\ UNCHANGED raised
    /\ UNCHANGED <<req, privateKey, protocolVersion, platform, runtimeVersion, updateType, metadata,
                   assets, payload, signedString>>

AssetDescriptor(key, path, isLaunchAsset) ==
    [key |-> key, path |-> path, isLaunchAsset |-> isLaunchAsset]

\* results kept in the order in which the lookups complete
ResultSlotByArrival(i, settled) == Cardinality(settled) + 1

\* Promise.all: the result of the i-th promise is element i of the array, whichever
\* promises have settled before it
ResultSlot(i, settled) == i

\* One of the pending lookups settles.  Promise.all keeps each result at the position
\* of its lookup, rejects with the first rejection, and is fulfilled by the last result.
AssetMetadataSettled(r) ==
    /\ pc[r] = "awaitAssets"
    /\ \E i \in (1..Len(metadata[r].assets)) \ DOMAIN assets[r] :
          \/ \E error \in Throwables("getAssetMetadataAsync") :
                /\ Fail(r, error)
                /\ UNCHANGED assets
          \/ \E key \in AssetKeys :
                LET slot == ResultSlot(i, DOMAIN assets[r])
                IN  /\ assets' = [assets EXCEPT ![r] =
                           [j \in DOMAIN assets[r] \cup {slot} |->
                               IF j = slot
                               THEN AssetDescriptor(key, metadata[r].assets[i], FALSE)
                               ELSE assets[r][j]]]
                    /\ IF DOMAIN assets[r] \cup {slot} = 1..Len(metadata[r].assets)
                       THEN Await(r, "manifest", {"getAssetMetadataAsync"}, "awaitLaunchAsset")
                       ELSE UNCHANGED <<pc, response, escaped, builder, calls>>
                    /\ UNCHANGED raised
    /\ UNCHANGED <<req, privateKey, protocolVersion, platform, runtimeVersion, updateType, metadata,
                   payload, signedString>>

(***************************************************************************)
(* Signing and framing, written three times in the source: once in each    *)
(* builder.                                                                *)
(***************************************************************************)
\* signing whatever the request asks
SigningAlways(expectSignatureHeader) == TRUE

\* a key check that lets a missing key through
KeyNeverMissing(key) == FALSE

\* the map with the assets' keys only, the launch asset left out
AssetRequestHeadersWithoutLaunchAsset(manifest) ==
    [key \in {manifest.assets[i].key : i \in DOMAIN manifest.assets} |-> "test-header-value"]

\* if (expectSignatureHeader)
SigningRequested(expectSignatureHeader) == Truthy(expectSignatureHeader)

\* if (!privateKey)
KeyMissing(key) == ~Truthy(key)

PrivateKeys == {Null, Str(<<"k", "e", "y">>)}

\* ...(signature ? { 'expo-signature': signature } : {}) on the payload's part
PartSignature(signature) == IF signature.some THEN signature ELSE NoSignature

\* assetRequestHeaders: one entry per key among the assets and the launch asset
AssetRequestHeaders(manifest) ==
    [key \in {manifest.assets[i].key : i \in DOMAIN manifest.assets}
               \cup {manifest.launchAsset.key} |-> "test-header-value"]

\* the manifest builder's form and Response
ManifestResponse(manifest, signature, pv) ==
    MultipartResponse(toString(pv),
        <<Part("manifest", JSONstringify(manifest), "application/json; charset=utf-8",
               PartSignature(signature)),
          Part("extensions",
               JSONstringify([assetRequestHeaders |-> AssetRequestHeaders(manifest)]),
               "application/json", NoSignature)>>)

\* a directive builder announcing protocol version 0
DirectiveResponseVersion0(directive, signature) ==
    MultipartResponse(<<"0">>,
        <<Part("directive", JSONstringify(directive), "application/json; charset=utf-8",
               PartSignature(signature))>>)

\* a directive builder's form and Response
DirectiveResponse(directive, signature) ==
    MultipartResponse(<<"1">>,
        <<Part("directive", JSONstringify(directive), "application/json; charset=utf-8",
               PartSignature(signature))>>)

\* framing with the payload touched after it was signed
FrameRestamped(b, value, signature, pv) ==
    IF b = "manifest"
    THEN ManifestResponse([value EXCEPT !.createdAt = "restamped"], signature, pv)
    ELSE DirectiveResponse([value EXCEPT !.parameters = <<"restamped">>], signature)

Frame(b, value, signature, pv) ==
    IF b = "manifest" THEN ManifestResponse(value, signature, pv)
    ELSE DirectiveResponse(value, signature)

\* A builder with its payload in hand: the key is asked for only when the request
\* asks for a signature; otherwise the payload is framed unsigned.
SignOrFrame(r, b, value) ==
    IF SigningRequested(req[r].headers["expo-expect-signature"])
    THEN Await(r, b, {"getPrivateKeyAsync"}, "awaitPrivateKey")
    ELSE Return(r, Frame(b, value, NoSignature, protocolVersion[r]))

\* The launch asset's lookup settles: the manifest is complete.
LaunchAssetSettled(r) ==
    /\ pc[r] = "awaitLaunchAsset"
    /\ \/ \E error \in Throwables("getAssetMetadataAsync") :
             /\ Fail(r, error)
             /\ UNCHANGED payload
       \/ \E key \in LaunchAssetKeys :
             LET manifest ==
                   [id |-> convertSHA256HashToUUID(metadata[r].id),
                    createdAt |-> metadata[r].createdAt,
                    runtimeVersion |-> runtimeVersion[r].s,
                    assets |-> [i \in 1..Len(metadata[r].assets) |-> assets[r][i]],
                    launchAsset |-> AssetDescriptor(key, metadata[r].bundle, TRUE),
                    extra |-> [expoClient |-> "expoConfig"]]
             IN  /\ payload' = [payload EXCEPT ![r] = manifest]
                 /\ SignOrFrame(r, "manifest", manifest)
                 /\ UNCHANGED raised
    /\ UNCHANGED <<req, privateKey, protocolVersion, platform, runtimeVersion, updateType, metadata,
                   assets, signedString>>

RollBackDirective == [type |-> "rollback", parameters |-> <<"commitTime">>]

NoUpdateAvailableDirective == [type |-> "noUpdateAvailable", parameters |-> <<>>]

\* createRollBackDirectiveAsync settles
RollBackDirectiveCreated(r) ==
    /\ pc[r] = "awaitRollBackDirective"
    /\ \/ \E error \in Throwables("createRollBackDirectiveAsync") :
             /\ Fail(r, error)
             /\ UNCHANGED payload
       \/ /\ payload' = [payload EXCEPT ![r] = RollBackDirective]
          /\ SignOrFrame(r, "rollback", RollBackDirective)
          /\ UNCHANGED raised
    /\ UNCHANGED <<req, privateKey, protocolVersion, platform, runtimeVersion, updateType, metadata,
                   assets, signedString>>

\* createNoUpdateAvailableDirectiveAsync settles
NoUpdateDirectiveCreated(r) ==
    /\ pc[r] = "awaitNoUpdateDirective"
    /\ \/ \E error \in Throwables("createNoUpdateAvailableDirectiveAsync") :
             /\ Fail(r, error)
             /\ UNCHANGED payload
       \/ /\ payload' = [payload EXCEPT ![r] = NoUpdateAvailableDirective]
          /\ SignOrFrame(r, "noUpdate", NoUpdateAvailableDirective)
          /\ UNCHANGED raised
    /\ UNCHANGED <<req, privateKey, protocolVersion, platform, runtimeVersion, updateType, metadata,
                   assets, signedString>>

\* a key kept where every request finds it
KeepPrivateKeyForAll(r, key) == [q \in DOMAIN privateKey |-> Loaded(key)]

\* const privateKey: a local of the builder's call, one per request
KeepPrivateKey(r, key) == [privateKey EXCEPT ![r] = Loaded(key)]

\* getPrivateKeyAsync settles in builder b: no key is a 400; with a key the payload's
\* text is signed and framed.  The key provider and the signature primitive may raise.
PrivateKeyLoaded(r, b) ==
    /\ pc[r] = "awaitPrivateKey"
    /\ builder[r] = b
    /\ \/ \E error \in Throwables("getPrivateKeyAsync") :
             /\ Fail(r, error)
             /\ UNCHANGED <<privateKey, signedString>>
       \/ \E key \in PrivateKeys :
             /\ privateKey' = KeepPrivateKey(r, key)
             /\ IF KeyMissing(key)
                THEN /\ Return(r, ErrorResponse(400,
                             "Code signing requested but no key supplied when starting server.",
                             "application/json"))
                     /\ UNCHANGED <<signedString, raised>>
                ELSE LET text == JSONstringify(payload[r])
                         signature == SerializedSignature(signRSASHA256(text, key.s))
                     IN  /\ signedString' = [signedString EXCEPT ![r] = @ \cup {text}]
                         /\ \/ \E error \in Throwables("signRSASHA256") : Fail(r, error)
                            \/ /\ Return(r, Frame(b, payload[r], signature,
                                                  protocolVersion[r]))
                               /\ UNCHANGED raised
    /\ UNCHANGED <<req, protocolVersion, platform, runtimeVersion, updateType, metadata,
                   assets, payload>>

UpdatePrivateKeyLoaded(r) == PrivateKeyLoaded(r, "manifest")

RollBackPrivateKeyLoaded(r) == PrivateKeyLoaded(r, "rollback")

NoUpdatePrivateKeyLoaded(r) == PrivateKeyLoaded(r, "noUpdate")

Step(r) ==
        \/ GETStart(r)
        \/ BundlePathResolved(r)
        \/ UpdateTypeResolved(r)
        \/ MetadataRead(r)
        \/ ExpoConfigRead(r)
        \/ AssetMetadataSettled(r)
        \/ LaunchAssetSettled(r)
        \/ RollBackDirectiveCreated(r)
        \/ NoUpdateDirectiveCreated(r)
        \/ UpdatePrivateKeyLoaded(r)
        \/ RollBackPrivateKeyLoaded(r)
        \/ NoUpdatePrivateKeyLoaded(r)

Next == \E r \in {1} : Step(r)

Spec == Init /\ [][Next]_vars

(***************************************************************************)
(* Two requests in flight at once: each GET call runs up to its next await *)
(* and the event loop then resumes either.  The requests are drawn from a  *)
(* sample that reaches the three builders, signed and unsigned, under      *)
(* protocol versions 0 and 1, and the asset lists are kept shorter than    *)
(* for one request.                                                        *)
(***************************************************************************)
MaxAssetsInterleaved == 1

InterleavedRequests ==
    {q \in Requests :
        /\ q.method = "GET"
        /\ q.headers["expo-protocol-version"] \in {Null, Str(<<"1">>)}
        /\ q.headers["expo-platform"] = Str(IOS)
        /\ q.headers["expo-runtime-version"].some
        /\ q.headers["expo-embedded-update-id"] = Str(convertSHA256HashToUUID(<<"a">>))
        /\ q.headers["expo-current-update-id"]
              \in {Null, Str(convertSHA256HashToUUID(<<"a">>))}
        /\ q.headers["expo-expect-signature"] \in {Null, Str(<<"s", "i", "g">>)}
        /\ Truthy(q.headers["expo-current-update-id"])
              => Truthy(q.headers["expo-expect-signature"])
        /\ ~q.headers["expo-protocol-version"].some
              => ~Truthy(q.headers["expo-expect-signature"])
        /\ ~q.searchParams["platform"].some
        /\ ~q.searchParams["runtime-version"].some}

Init2 == InitFor({1, 2}, InterleavedRequests)

\* getMetadataAsync settles with one of the shorter asset lists
InterleavedMetadataRead(r) ==
    /\ MetadataRead(r)
    /\ Len(metadata'[r].assets) <= MaxAssetsInterleaved

Step2(r) ==
        \/ GETStart(r)
        \/ BundlePathResolved(r)
        \/ UpdateTypeResolved(r)
        \/ InterleavedMetadataRead(r)
        \/ ExpoConfigRead(r)
        \/ AssetMetadataSettled(r)
        \/ LaunchAssetSettled(r)
        \/ RollBackDirectiveCreated(r)
        \/ NoUpdateDirectiveCreated(r)
        \/ UpdatePrivateKeyLoaded(r)
        \/ RollBackPrivateKeyLoaded(r)
        \/ NoUpdatePrivateKeyLoaded(r)

Next2 == \E r \in {1, 2} : Step2(r)

Spec2 == Init2 /\ [][Next2]_vars

(***************************************************************************)
(* Vocabulary of the properties.                                           *)
(***************************************************************************)
Done(r) == pc[r] = "done"

Responded(r) == response[r].kind # "none"

Header(r, name) == req[r].headers[name]

PartNames(resp) == {resp.parts[i].name : i \in DOMAIN resp.parts}

IsPlainNoUpdateMessage(resp) ==
    /\ resp.status = 200
    /\ resp.kind = "message"
    /\ resp.message = "No update available"
    /\ resp.headers.contentType # "multipart/mixed"
    /\ resp.parts = <<>>
    /\ ~resp.headers.signature.some

IsDirectiveResponse(resp, type) ==
    /\ resp.status = 200
    /\ resp.kind = "multipart"
    /\ resp.headers.contentType = "multipart/mixed"
    /\ Len(resp.parts) = 1
    /\ resp.parts[1].name = "directive"
    /\ resp.parts[1].body = [json |-> [type |-> type,
                                      parameters |-> IF type = "rollback"
                                                     THEN <<"commitTime">> ELSE <<>>]]

IsManifestResponse(resp) ==
    /\ resp.status = 200
    /\ resp.kind = "multipart"
    /\ resp.headers.contentType = "multipart/mixed"
    /\ Len(resp.parts) = 2
    /\ resp.parts[1].name = "manifest"
    /\ resp.parts[2].name = "extensions"

IsKeyMissingResponse(resp) ==
    /\ resp.status = 400
    /\ resp.kind = "error"
    /\ resp.message = "Code signing requested but no key supplied when starting server."

\* a string of decimal digits, and at least one
IsNonNegativeInteger(s) == s # <<>> /\ \A i \in DOMAIN s : s[i] \in DOMAIN DigitVal

(***************************************************************************)
(* C1.  Once the bundle is resolved, every failure of a collaborator ends  *)
(* GET with a response: no raised condition leaves GET.  Stated as: a      *)
(* finished request has a response and nothing escaped.                    *)
(***************************************************************************)
C1_EveryFailureAnswered ==
    \A r \in RequestIds :
        Done(r) /\ "getTypeOfUpdateAsync" \in calls[r]
            => Responded(r) /\ escaped[r] = NoError

(***************************************************************************)
(* C2.  An expo-protocol-version header that is present and is no          *)
(* non-negative integer gets a 400 and no processing: no collaborator is   *)
(* called.  An absent header is protocol version 0.                        *)
(***************************************************************************)
C2_MalformedProtocolVersionRejected ==
    \A r \in RequestIds :
        LET h == Header(r, "expo-protocol-version")
        IN  /\ req[r].method = "GET" /\ h.some /\ ~IsNonNegativeInteger(h.s)
                => /\ calls[r] = {}
                   /\ Done(r) => response[r].status = 400
            /\ req[r].method = "GET" /\ ~h.some /\ pc[r] # "start"
                => protocolVersion[r] = Num(0)

(***************************************************************************)
(* C3.  A ROLLBACK bundle asked for with protocol version 1 and no (or an  *)
(* empty) expo-embedded-update-id header is answered 400 with a message    *)
(* about the header, and no directive is built or signed.                  *)
(***************************************************************************)
C3_MissingEmbeddedIdIs400 ==
    \A r \in RequestIds :
        /\ updateType[r] = ROLLBACK
        /\ protocolVersion[r] = Num(1)
        /\ ~Truthy(Header(r, "expo-embedded-update-id"))
        => /\ Done(r)
           /\ response[r].status = 400
           /\ response[r].message = "Invalid Expo-Embedded-Update-ID request header specified."
           /\ calls[r] \cap {"createRollBackDirectiveAsync",
                             "createNoUpdateAvailableDirectiveAsync",
                             "getPrivateKeyAsync"} = {}
           /\ signedString[r] = {}

(***************************************************************************)
(* C4.  NORMAL bundle, protocol version 1, expo-current-update-id equal to *)
(* the identifier derived from the bundle's content hash: the response is  *)
(* the plain 200 "No update available" message, not multipart, unsigned,   *)
(* and the key provider is not called, whatever expo-expect-signature is.  *)
(***************************************************************************)
C4_Case(r) ==
    /\ updateType[r] = NORMAL_UPDATE
    /\ protocolVersion[r] = Num(1)
    /\ metadata[r] # NoMetadata
    /\ Header(r, "expo-current-update-id") = Str(convertSHA256HashToUUID(metadata[r].id))

C4_ShortcutIsPlainMessage ==
    \A r \in RequestIds :
        C4_Case(r)
        => /\ Done(r)
           /\ IsPlainNoUpdateMessage(response[r])
           /\ escaped[r] = NoError
           /\ "getPrivateKeyAsync" \notin calls[r]
           /\ signedString[r] = {}

C4_Witness ==
    \E r \in RequestIds :
        /\ C4_Case(r)
        /\ Truthy(Header(r, "expo-expect-signature"))
        /\ IsPlainNoUpdateMessage(response[r])

(***************************************************************************)
(* C5.  ROLLBACK bundle, protocol version 1, expo-embedded-update-id       *)
(* present, expo-current-update-id equal to it.  As claimed: every         *)
(* response is the 200 multipart body with the single part `directive`     *)
(* holding a NoUpdateAvailable directive, never an error.                  *)
(***************************************************************************)
C5_Case(r) ==
    /\ updateType[r] = ROLLBACK
    /\ protocolVersion[r] = Num(1)
    /\ Truthy(Header(r, "expo-embedded-update-id"))
    /\ Header(r, "expo-current-update-id") = Header(r, "expo-embedded-update-id")

C5_AlwaysNoUpdateDirective ==
    \A r \in RequestIds :
        C5_Case(r) /\ Done(r) /\ Responded(r)
            => IsDirectiveResponse(response[r], "noUpdateAvailable")

(***************************************************************************)
(* C5, amended.  In that case every response GET returns is the 200        *)
(* multipart NoUpdateAvailable directive, signed exactly when              *)
(* expo-expect-signature is non-empty, or, when a signature is asked for   *)
(* and the key provider returns no key, the 400 of the missing key.  It is *)
(* never the plain message, a RollBack directive or a 404; the request     *)
(* ends without a response only when a collaborator of the no-update       *)
(* builder raised.                                                         *)
(***************************************************************************)
C5_NoUpdateDirectiveOrKeyMissing ==
    \A r \in RequestIds :
        C5_Case(r)
        => /\ builder[r] = "noUpdate"
           /\ "createRollBackDirectiveAsync" \notin calls[r]
           /\ Done(r) =>
                \/ /\ IsDirectiveResponse(response[r], "noUpdateAvailable")
                   /\ response[r].parts[1].signature.some
                        <=> Truthy(Header(r, "expo-expect-signature"))
                   /\ escaped[r] = NoError
                \/ /\ IsKeyMissingResponse(response[r])
                   /\ Truthy(Header(r, "expo-expect-signature"))
                   /\ privateKey[r] = Loaded(Null)
                   /\ escaped[r] = NoError
                \/ /\ ~Responded(r)
                   /\ escaped[r].message \in {"createNoUpdateAvailableDirectiveAsync",
                                              "getPrivateKeyAsync", "signRSASHA256"}

C5_Witness ==
    \E r \in RequestIds :
        /\ C5_Case(r)
        /\ IsDirectiveResponse(response[r], "noUpdateAvailable")
        /\ response[r].parts[1].signature.some

(***************************************************************************)
(* C6.  ROLLBACK bundle, protocol version 0: whatever the other headers,   *)
(* the response is the 404 whose message names the unsupported protocol    *)
(* version; no directive is served and neither a directive factory nor the *)
(* key provider is called.                                                 *)
(***************************************************************************)
C6_Case(r) == updateType[r] = ROLLBACK /\ protocolVersion[r] = Num(0)

C6_RollbackOnVersion0Fails ==
    \A r \in RequestIds :
        C6_Case(r)
        => /\ Done(r)
           /\ response[r].status = 404
           /\ response[r].kind = "error"
           /\ response[r].message = "Rollbacks not supported on protocol version 0"
           /\ escaped[r] = NoError
           /\ calls[r] \cap {"createRollBackDirectiveAsync",
                             "createNoUpdateAvailableDirectiveAsync",
                             "getPrivateKeyAsync"} = {}

C6_Witness ==
    \E r \in RequestIds :
        /\ C6_Case(r)
        /\ Truthy(Header(r, "expo-embedded-update-id"))
        /\ Header(r, "expo-current-update-id") = Header(r, "expo-embedded-update-id")
        /\ Truthy(Header(r, "expo-expect-signature"))
        /\ response[r].status = 404

C8_UnsignedUnlessAsked ==
    \A r \in RequestIds :
        /\ ~Header(r, "expo-expect-signature").some
            => /\ "getPrivateKeyAsync" \notin calls[r]
               /\ signedString[r] = {}
               /\ \A i \in DOMAIN response[r].parts : ~response[r].parts[i].signature.some
        /\ ~response[r].headers.signature.some
        /\ \A i \in DOMAIN response[r].parts :
              response[r].parts[i].signature.some
                  => i = 1 /\ response[r].parts[i].name \in {"manifest", "directive"}

C8_Witness ==
    \E r \in RequestIds :
        /\ ~Header(r, "expo-expect-signature").some
        /\ IsManifestResponse(response[r])

(***************************************************************************)
(* C9.  As claimed: a manifest response for an asset list of n entries has *)
(* n assets in its manifest and exactly n keys in the extensions' map.     *)
(***************************************************************************)
ManifestOf(resp) == resp.parts[1].body.json

AssetRequestHeadersOf(resp) == resp.parts[2].body.json.assetRequestHeaders

C9_ExactlyNHeaderKeys ==
    \A r \in RequestIds :
        IsManifestResponse(response[r])
        => /\ Len(ManifestOf(response[r]).assets) = Len(metadata[r].assets)
           /\ Cardinality(DOMAIN AssetRequestHeadersOf(response[r])) = Len(metadata[r].assets)

(***************************************************************************)
(* C9, amended.  The manifest has the n assets and a launch asset, and the *)
(* extensions' map has one key for each distinct key among the n assets    *)
(* and the launch asset: n + 1 keys when those keys are all different.     *)
(***************************************************************************)
C9_HeaderKeysOfAssetsAndLaunchAsset ==
    \A r \in RequestIds :
        IsManifestResponse(response[r])
        => LET manifest == ManifestOf(response[r])
               n == Len(metadata[r].assets)
               keys == {manifest.assets[i].key : i \in 1..n} \cup {manifest.launchAsset.key}
           IN  /\ updateType[r] = NORMAL_UPDATE
               /\ DOMAIN manifest.assets = 1..n
               /\ manifest.launchAsset.isLaunchAsset
               /\ DOMAIN AssetRequestHeadersOf(response[r]) = keys
               /\ (/\ \A i, j \in 1..n : i # j => manifest.assets[i].key # manifest.assets[j].key
                   /\ \A i \in 1..n : manifest.assets[i].key # manifest.launchAsset.key)
                    => Cardinality(DOMAIN AssetRequestHeadersOf(response[r])) = n + 1

C9_Witness ==
    \E r \in RequestIds :
        /\ IsManifestResponse(response[r])
        /\ Len(metadata[r].assets) = 2
        /\ Cardinality(DOMAIN AssetRequestHeadersOf(response[r])) = 3

(***************************************************************************)
(* C10.  NORMAL bundle, protocol version 0: the shortcut is never taken.   *)
(* Even with expo-current-update-id equal to the bundle's identifier the   *)
(* builder goes on to the full manifest; the response is never the plain   *)
(* message and never a directive, every 200 is the multipart manifest with *)
(* parts `manifest` and `extensions`, and the only other responses are the *)
(* 404 of a failed collaborator and the 400 of the missing key.            *)
(***************************************************************************)
C10_Case(r) == updateType[r] = NORMAL_UPDATE /\ protocolVersion[r] = Num(0)

C10_Version0AlwaysFullManifest ==
    \A r \in RequestIds :
        C10_Case(r)
        => /\ response[r].kind # "message"
           /\ "directive" \notin PartNames(response[r])
           /\ builder[r] = "manifest"
           /\ metadata[r] # NoMetadata => "getExpoConfigAsync" \in calls[r]
           /\ Done(r) =>
                \/ /\ IsManifestResponse(response[r])
                   /\ ManifestOf(response[r]).id = convertSHA256HashToUUID(metadata[r].id)
                \/ /\ IsKeyMissingResponse(response[r])
                   /\ privateKey[r] = Loaded(Null)
                \/ /\ response[r].status = 404
                   /\ response[r].message \in
                        {"getMetadataAsync", "getExpoConfigAsync", "getAssetMetadataAsync",
                         "getPrivateKeyAsync", "signRSASHA256", "An unknown error occurred",
                         "Cannot read properties of undefined (reading 'assets')"}

C10_Witness ==
    \E r \in RequestIds :
        /\ C10_Case(r)
        /\ Header(r, "expo-current-update-id") = Str(convertSHA256HashToUUID(metadata[r].id))
        /\ IsManifestResponse(response[r])

(***************************************************************************)
(* C11.  Validation precedes all work.  A GET whose platform, the header   *)
(* or else the query parameter, is not exactly "ios" or "android", or      *)
(* whose runtime version is given by neither header nor query parameter,   *)
(* is answered 400 by GET's first stretch, and at no moment of the request *)
(* has any collaborator been called: not the bundle resolver, the          *)
(* classifier, the metadata provider or the key provider.                  *)
(***************************************************************************)
C11_PlatformOf(r) ==
    IF Header(r, "expo-platform").some THEN Header(r, "expo-platform")
    ELSE req[r].searchParams["platform"]

C11_RuntimeVersionAbsent(r) ==
    ~Header(r, "expo-runtime-version").some /\ ~req[r].searchParams["runtime-version"].some

C11_Case(r) ==
    /\ req[r].method = "GET"
    /\ \/ ~C11_PlatformOf(r).some
       \/ C11_PlatformOf(r).s \notin {IOS, ANDROID}
       \/ C11_RuntimeVersionAbsent(r)

C11_ValidationPrecedesAllWork ==
    \A r \in RequestIds :
        C11_Case(r)
        => /\ calls[r] = {}
           /\ builder[r] = "none"
           /\ updateType[r] \notin {NORMAL_UPDATE, ROLLBACK}
           /\ metadata[r] = NoMetadata
           /\ privateKey[r] = NotLoaded
           /\ pc[r] \in {"start", "done"}
           /\ Done(r) => /\ response[r].status = 400
                         /\ response[r].kind = "error"
                         /\ escaped[r] = NoError

C11_Witness ==
    \E r \in RequestIds :
        /\ C11_Case(r)
        /\ Header(r, "expo-platform").some
        /\ Header(r, "expo-platform").s \notin {IOS, ANDROID}
        /\ req[r].searchParams["platform"] = Str(ANDROID)
        /\ Done(r)
        /\ response[r].status = 400

(***************************************************************************)
(* C12.  The asset lookups of one manifest request complete in any order,  *)
(* and whatever the order, each result stands at the position of its entry *)
(* in the platform's asset list: while the lookups are pending every       *)
(* result already held describes the entry of its own position, and the    *)
(* manifest sent has as many assets as the list, in the list's order.      *)
(***************************************************************************)
C12_AssetsInSourceOrder ==
    \A r \in RequestIds :
        /\ DOMAIN assets[r] \subseteq 1..Len(metadata[r].assets)
        /\ \A i \in DOMAIN assets[r] :
              /\ assets[r][i].path = metadata[r].assets[i]
              /\ ~assets[r][i].isLaunchAsset
        /\ pc[r] \in {"awaitLaunchAsset", "awaitPrivateKey"} /\ builder[r] = "manifest"
              => DOMAIN assets[r] = 1..Len(metadata[r].assets)
        /\ IsManifestResponse(response[r])
              => /\ DOMAIN ManifestOf(response[r]).assets = 1..Len(metadata[r].assets)
                 /\ \A i \in 1..Len(metadata[r].assets) :
                       /\ ManifestOf(response[r]).assets[i] = assets[r][i]
                       /\ ManifestOf(response[r]).assets[i].path = metadata[r].assets[i]

\* the second lookup has completed before the first, and the two entries differ
C12_Witness ==
    \E r \in RequestIds :
        /\ pc[r] = "awaitAssets"
        /\ Len(metadata[r].assets) = 2
        /\ metadata[r].assets[1] # metadata[r].assets[2]
        /\ DOMAIN assets[r] = {2}
        /\ assets[r][2].path = metadata[r].assets[2]

(***************************************************************************)
(* C13.  On every signed response the text handed to the signature         *)
(* primitive is the text sent as the body of the payload part, `manifest`  *)
(* or `directive`: one text was signed in the request, it is the           *)
(* serialization of the builder's payload, the signature sent is the       *)
(* signature of that text, and the part's body is that text.               *)
(***************************************************************************)
C13_IsSigned(resp) == resp.kind = "multipart" /\ resp.parts[1].signature.some

C13_SignedTextIsSentText ==
    \A r \in RequestIds :
        /\ C13_IsSigned(response[r])
              => /\ response[r].parts[1].name \in {"manifest", "directive"}
                 /\ signedString[r] = {response[r].parts[1].body}
                 /\ response[r].parts[1].signature.sig.message = response[r].parts[1].body
                 /\ response[r].parts[1].body = JSONstringify(payload[r])
                 /\ \A i \in DOMAIN response[r].parts :
                       i # 1 => ~response[r].parts[i].signature.some
        /\ signedString[r] \subseteq {JSONstringify(payload[r])}

C13_Witness ==
    \E r \in RequestIds :
        /\ C13_IsSigned(response[r])
        /\ response[r].parts[1].name = "manifest"
        /\ Len(ManifestOf(response[r]).assets) = 2
        /\ signedString[r] = {response[r].parts[1].body}

(***************************************************************************)
(* C15.  The bundle's classification alone selects the builder.  A bundle  *)
(* classified NORMAL is handled by the manifest builder only: no directive *)
(* factory is called and no response has a `directive` part.  A bundle     *)
(* classified ROLLBACK is handled by the directive builders only: no       *)
(* metadata, app config or asset is read, and no response has a `manifest` *)
(* part or is the plain "No update available" message.  A request past     *)
(* validation and bundle resolution whose classifier has settled is        *)
(* classified one of the two, unless the classifier itself raised, which   *)
(* ends the request with no builder run (the case of C1).                  *)
(***************************************************************************)
C15_ManifestCollaborators == {"getMetadataAsync", "getExpoConfigAsync", "getAssetMetadataAsync"}

C15_DirectiveCollaborators ==
    {"createRollBackDirectiveAsync", "createNoUpdateAvailableDirectiveAsync"}

C15_ClassificationSelectsBuilder ==
    \A r \in RequestIds :
        /\ updateType[r] = NORMAL_UPDATE
              => /\ builder[r] = "manifest"
                 /\ "getMetadataAsync" \in calls[r]
                 /\ calls[r] \cap C15_DirectiveCollaborators = {}
                 /\ "directive" \notin PartNames(response[r])
                 /\ payload[r] \notin {RollBackDirective, NoUpdateAvailableDirective}
        /\ updateType[r] = ROLLBACK
              => /\ builder[r] \in {"none", "rollback", "noUpdate"}
                 /\ calls[r] \cap C15_ManifestCollaborators = {}
                 /\ metadata[r] = NoMetadata
                 /\ PartNames(response[r]) \cap {"manifest", "extensions"} = {}
                 /\ response[r].kind # "message"
                 /\ payload[r] \in {NoPayload, RollBackDirective, NoUpdateAvailableDirective}
        /\ builder[r] # "none" => updateType[r] \in {NORMAL_UPDATE, ROLLBACK}
        /\ "getTypeOfUpdateAsync" \in calls[r] /\ pc[r] # "awaitUpdateType"
              => \/ updateType[r] \in {NORMAL_UPDATE, ROLLBACK}
                 \/ /\ Done(r)
                    /\ ~Responded(r)
                    /\ escaped[r] \in Throwables("getTypeOfUpdateAsync")
                    /\ calls[r] \cap (C15_ManifestCollaborators \cup C15_DirectiveCollaborators) = {}

\* a ROLLBACK bundle asked for with the protocol version and current update id that the
\* manifest builder's shortcut looks at, answered with a directive
C15_Witness ==
    \E r \in RequestIds :
        /\ updateType[r] = ROLLBACK
        /\ protocolVersion[r] = Num(1)
        /\ Truthy(Header(r, "expo-current-update-id"))
        /\ IsDirectiveResponse(response[r], "rollback")

(***************************************************************************)
(* C16.  Every 200 multipart response carries expo-sfv-version 0 and       *)
(* cache-control 'private, max-age=0'.  On the manifest path the           *)
(* expo-protocol-version response header is the request's protocol         *)
(* version written back: 0 when the request names none, the request's own  *)
(* header text when that is a decimal integer, and the text NaN when the   *)
(* header did not parse (a request C2 says is rejected).  On both          *)
(* directive paths the header is always 1.                                 *)
(***************************************************************************)
C16_IsInteger(s) ==
    \/ IsNonNegativeInteger(s)
    \/ Len(s) > 1 /\ s[1] = "-" /\ IsNonNegativeInteger(Tail(s))

C16_EchoOf(h) ==
    IF ~h.some THEN <<"0">>
    ELSE IF C16_IsInteger(h.s) THEN h.s
    ELSE <<"N", "a", "N">>

C16_ResponseHeaders ==
    \A r \in RequestIds :
        response[r].kind = "multipart"
        => /\ response[r].status = 200
           /\ response[r].headers.sfvVersion = Str(<<"0">>)
           /\ response[r].headers.cacheControl = "private, max-age=0"
           /\ response[r].headers.contentType = "multipart/mixed"
           /\ "manifest" \in PartNames(response[r])
                 => response[r].headers.protocolVersion
                        = Str(C16_EchoOf(Header(r, "expo-protocol-version")))
           /\ "directive" \in PartNames(response[r])
                 => response[r].headers.protocolVersion = Str(<<"1">>)
           /\ PartNames(response[r]) \cap {"manifest", "directive"} # {}

\* a directive answering a request that declared protocol version 2
C16_Witness ==
    \E r \in RequestIds :
        /\ Header(r, "expo-protocol-version") = Str(<<"2">>)
        /\ IsDirectiveResponse(response[r], "noUpdateAvailable")
        /\ response[r].headers.protocolVersion = Str(<<"1">>)

(***************************************************************************)
(* C17.  Platform and runtime version are each resolved with header        *)
(* precedence.  When the header is present its value is the one validated  *)
(* and used, even if the query parameter is present with another value: a  *)
(* bad expo-platform header is a 400 whatever the query parameter, and the *)
(* manifest's runtimeVersion is the header's.  The query parameter is used *)
(* only when the header is absent.                                         *)
(***************************************************************************)
C17_Resolved(header, param) == IF header.some THEN header ELSE param

C17_HeaderPrecedence ==
    \A r \in RequestIds :
        LET pl == C17_Resolved(Header(r, "expo-platform"), req[r].searchParams["platform"])
            rv == C17_Resolved(Header(r, "expo-runtime-version"),
                               req[r].searchParams["runtime-version"])
        IN  req[r].method = "GET" /\ pc[r] # "start"
            => /\ platform[r] = pl
               /\ (~pl.some \/ pl.s \notin {IOS, ANDROID})
                     => response[r].status = 400 /\ calls[r] = {}
               /\ (pl.some /\ pl.s \in {IOS, ANDROID})
                     => /\ runtimeVersion[r] = rv
                        /\ rv.some => calls[r] # {}
               /\ metadata[r] # NoMetadata /\ "getExpoConfigAsync" \in calls[r]
                  /\ pc[r] # "awaitExpoConfig" /\ pl.s \notin metadata[r].platforms
                     => response[r].status = 404 \/ ~Responded(r)
               /\ IsManifestResponse(response[r])
                     => /\ ManifestOf(response[r]).runtimeVersion = rv.s
                        /\ pl.s \in metadata[r].platforms

\* header and query parameter both given and different, for both fields, and the
\* header's values used
C17_Witness ==
    \E r \in RequestIds :
        /\ Header(r, "expo-platform") = Str(IOS)
        /\ req[r].searchParams["platform"] = Str(ANDROID)
        /\ Header(r, "expo-runtime-version").some
        /\ req[r].searchParams["runtime-version"].some
        /\ Header(r, "expo-runtime-version") # req[r].searchParams["runtime-version"]
        /\ IsManifestResponse(response[r])
        /\ ManifestOf(response[r]).runtimeVersion = Header(r, "expo-runtime-version").s

(***************************************************************************)
(* C18.  The NoUpdateAvailable builder is entered only from the rollback   *)
(* builder, after its protocol version 0 check has passed: whenever it     *)
(* runs the bundle is ROLLBACK, the protocol version is not 0 and the      *)
(* request's current update id equals its embedded update id, so the       *)
(* builder's own 'protocol version 0' failure is never raised.  A          *)
(* NoUpdateAvailable directive is served only for such a request.          *)
(***************************************************************************)
C18_Version0Failure == Error("NoUpdateAvailable directive not available in protocol version 0")

C18_InNoUpdateBuilder(r) ==
    \/ builder[r] = "noUpdate"
    \/ "createNoUpdateAvailableDirectiveAsync" \in calls[r]
    \/ payload[r] = NoUpdateAvailableDirective
    \/ IsDirectiveResponse(response[r], "noUpdateAvailable")

C18_NoUpdateOnlyAfterRollbackGate ==
    \A r \in RequestIds :
        /\ escaped[r] # C18_Version0Failure
        /\ response[r].message # C18_Version0Failure.message
        /\ C18_InNoUpdateBuilder(r)
           => /\ updateType[r] = ROLLBACK
              /\ ~NumStrictEq(protocolVersion[r], Num(0))
              /\ Truthy(Header(r, "expo-embedded-update-id"))
              /\ Header(r, "expo-current-update-id") = Header(r, "expo-embedded-update-id")
              /\ "createRollBackDirectiveAsync" \notin calls[r]

C18_Witness ==
    \E r \in RequestIds :
        /\ builder[r] = "noUpdate"
        /\ ~NumStrictEq(protocolVersion[r], Num(0))
        /\ IsDirectiveResponse(response[r], "noUpdateAvailable")
        /\ C13_IsSigned(response[r])

(***************************************************************************)
(* C19.  The directive path gates on the protocol version being exactly 0  *)
(* and on nothing else.  For a ROLLBACK bundle and a request with a        *)
(* non-empty embedded update id whose parsed protocol version is not 0     *)
(* (1, 2, a negative number, or no number at all), the 'not supported on   *)
(* protocol version 0' answer is never given, a directive builder runs,    *)
(* and what GET returns is a directive with status 200 and response header *)
(* expo-protocol-version 1, whatever version the client declared; the only *)
(* other ends are the 400 of the missing key and the failure of a          *)
(* collaborator.                                                           *)
(***************************************************************************)
C19_Case(r) ==
    /\ updateType[r] = ROLLBACK
    /\ ~NumStrictEq(protocolVersion[r], Num(0))
    /\ Truthy(Header(r, "expo-embedded-update-id"))

C19_Collaborators ==
    {"createRollBackDirectiveAsync", "createNoUpdateAvailableDirectiveAsync",
     "getPrivateKeyAsync", "signRSASHA256"}

C19_DirectiveUnlessVersion0 ==
    \A r \in RequestIds :
        C19_Case(r)
        => /\ builder[r] \in {"rollback", "noUpdate"}
           /\ response[r].message # "Rollbacks not supported on protocol version 0"
           /\ calls[r] \cap {"createRollBackDirectiveAsync",
                             "createNoUpdateAvailableDirectiveAsync"} # {}
           /\ Done(r) =>
                \/ /\ \/ IsDirectiveResponse(response[r], "rollback")
                      \/ IsDirectiveResponse(response[r], "noUpdateAvailable")
                   /\ response[r].headers.protocolVersion = Str(<<"1">>)
                   /\ escaped[r] = NoError
                \/ /\ IsKeyMissingResponse(response[r])
                   /\ privateKey[r] = Loaded(Null)
                \/ /\ response[r].status = 404
                   /\ builder[r] = "rollback"
                   /\ response[r].message \in C19_Collaborators \cup {"An unknown error occurred"}
                \/ /\ ~Responded(r)
                   /\ builder[r] = "noUpdate"
                   /\ \E c \in C19_Collaborators : escaped[r] \in Throwables(c)

\* a request whose protocol version header did not parse, served a RollBack directive
C19_Witness ==
    \E r \in RequestIds :
        /\ C19_Case(r)
        /\ protocolVersion[r] = NaN
        /\ Header(r, "expo-protocol-version").some
        /\ IsDirectiveResponse(response[r], "rollback")
        /\ response[r].headers.protocolVersion = Str(<<"1">>)

(***************************************************************************)
(* C14.  The engine holds no state across requests.  With two requests     *)
(* interleaved at their await points in every way (one after the other     *)
(* included): each step of GET reads and writes the locals of one request  *)
(* and leaves everything of the other request as it was, and the outcome   *)
(* of a request is a function of its own inputs alone, that is, two        *)
(* finished requests that agree on the request itself, on the bundle       *)
(* resolved (its type, metadata and assets), on the key resolved and on    *)
(* what their collaborators raised have the same response, status, shape   *)
(* and signature, or the same escaped condition.                           *)
(***************************************************************************)
C14_Local(q) ==
    <<req[q], pc[q], builder[q], protocolVersion[q], platform[q], runtimeVersion[q],
      updateType[q], metadata[q], assets[q], payload[q], privateKey[q], signedString[q],
      response[q], escaped[q], calls[q], raised[q]>>

C14_LaunchAsset(r) ==
    IF updateType[r] = NORMAL_UPDATE /\ payload[r] # NoPayload
    THEN payload[r].launchAsset
    ELSE AssetDescriptor("", "", FALSE)

C14_Inputs(r) ==
    <<req[r], updateType[r], metadata[r], assets[r], C14_LaunchAsset(r), privateKey[r],
      raised[r]>>

C14_Outcome(r) == <<response[r], escaped[r]>>

C14_SameInputsSameOutcome ==
    \A r, q \in RequestIds :
        Done(r) /\ Done(q) /\ C14_Inputs(r) = C14_Inputs(q)
            => C14_Outcome(r) = C14_Outcome(q)

C14_OneRequestPerStep ==
    \E r \in RequestIds : \A q \in RequestIds \ {r} : C14_Local(q)' = C14_Local(q)

C14_NoCrossRequestState ==
    /\ []C14_SameInputsSameOutcome
    /\ [][C14_OneRequestPerStep]_vars

\* two requests with the same inputs, both in flight at once, finished with the same
\* signed manifest; and the other request's key did not matter
C14_Witness ==
    /\ RequestIds = {1, 2}
    /\ Done(1) /\ Done(2)
    /\ C14_Inputs(1) = C14_Inputs(2)
    /\ IsManifestResponse(response[1])
    /\ C13_IsSigned(response[1])
    /\ response[2] = response[1]

====
